---------------------------- MODULE Spec2Model ----------------------------
(***************************************************************************)
(* A model of social_program_cli (src/src/main.rs): the UserProfile and    *)
(* UserPost records and their operations, the Borsh wire format of the     *)
(* records and of SocialInstruction, the program-derived-address search    *)
(* behind get_pda, and the six SocialClient operations with the RPC calls  *)
(* of send_instruction, which is public and also called on its own.        *)
(*                                                                         *)
(* The module holds four state machines over one set of variables; each    *)
(* leaves the variables of the others at their initial values:             *)
(*   SpecProfile / SpecProfileWide   UserProfile::{new, follow, un_follow} *)
(*   SpecPost                        UserPost::{new, post, query_posts}    *)
(*   SpecCodec                       Borsh encode / try_from_slice         *)
(*   SpecClient                      SocialClient::* and get_pda           *)
(***************************************************************************)
EXTENDS Integers, Sequences, FiniteSets, TLC

VARIABLES
    follows,      \* UserProfile.follows : Vec<Pubkey>
    data_len,     \* UserProfile.data_len : u16
    posts,        \* UserPost.posts : Vec<Post>
    post_count,   \* UserPost.post_count : u64
    ret,          \* what the last query_posts call returned
    calls,        \* the calls made on the record since Init, in order
    value,        \* codec: the value handed to the encoder
    bytes,        \* codec: the buffer (encoder output or decoder input)
    decoded,      \* codec: the result of try_from_slice on bytes
    curve,        \* client: the curve primitive (which candidates are on-curve)
    op,           \* client: the operation called, with its arguments
    built,        \* client: the instructions the operation built
    rpc,          \* client: the RPC calls made, with their outcomes
    result        \* client: what the operation returned

profileVars == <<follows, data_len>>
postVars    == <<posts, post_count, ret>>
codecVars   == <<value, bytes, decoded>>
clientVars  == <<curve, op, built, rpc, result>>
vars == <<follows, data_len, posts, post_count, ret, calls,
          value, bytes, decoded, curve, op, built, rpc, result>>

---------------------------------------------------------------------------
(* Bounds of the model. *)

\* Number of distinct user addresses the record operations draw from.
NumUsers == 3
\* Longest history of calls on a record.
MaxCalls == 4
\* Longest history of calls while the profile holds 65535 entries or more.
MaxWideCalls == 2
\* Longest Vec inside a record handed to the codec.
MaxVecLen == 2

(* Program constants. *)

\* u16 holds values modulo 2^16 (data_len: u16).
U16Modulus == 65536
\* A Pubkey is 32 bytes.
PubkeyBytes == 32

\* No value (yet).
None == [none |-> TRUE]
Some(v) == [some |-> v]

Range(s) == {s[i] : i \in DOMAIN s}
Last(s) == s[Len(s)]

---------------------------------------------------------------------------
(* UserProfile *)

Users == 1..NumUsers

\* `n as u16`: the low 16 bits of a usize.
AsU16(n) == n % U16Modulus

\* A retain that stops at the first match (Vec::remove of the first position).
RetainFirstOnly(s, user) ==
    IF \E i \in DOMAIN s : s[i] = user
    THEN LET k == CHOOSE i \in DOMAIN s :
                      s[i] = user /\ \A j \in 1..(i - 1) : s[j] # user
         IN  SubSeq(s, 1, k - 1) \o SubSeq(s, k + 1, Len(s))
    ELSE s

\* Vec::retain(|&x| x != user): keeps, in order, the entries that differ.
Retain(s, user) == SelectSeq(s, LAMBDA x : x # user)

\* UserProfile::new()
ProfileNew == [follows |-> <<>>, data_len |-> 0]

\* UserProfile::follow: push, then data_len = len as u16.
follow(p, user) ==
    LET f == Append(p.follows, user)
    IN  [follows |-> f, data_len |-> AsU16(Len(f))]

\* An un_follow that counts down instead of recomputing the length.
un_follow_decrement(p, user) ==
    [follows |-> Retain(p.follows, user),
     data_len |-> AsU16(p.data_len + U16Modulus - 1)]

\* UserProfile::un_follow: retain, then data_len = len as u16.
un_follow(p, user) ==
    LET f == Retain(p.follows, user)
    IN  [follows |-> f, data_len |-> AsU16(Len(f))]

Profile == [follows |-> follows, data_len |-> data_len]

\* The bound on the calls explored: MaxCalls, and MaxWideCalls once the
\* profile is as long as a u16 counts.
MayCallProfile ==
    Len(calls) < (IF Len(follows) >= U16Modulus - 1 THEN MaxWideCalls ELSE MaxCalls)

Idle ==
    /\ posts = <<>> /\ post_count = 0 /\ ret = None
    /\ value = None /\ bytes = <<>> /\ decoded = None
    /\ curve = None /\ op = None /\ built = <<>> /\ rpc = <<>> /\ result = None

InitProfile ==
    /\ follows = ProfileNew.follows
    /\ data_len = ProfileNew.data_len
    /\ calls = <<>>
    /\ Idle

Follow(u) ==
    /\ MayCallProfile
    /\ follows' = follow(Profile, u).follows
    /\ data_len' = follow(Profile, u).data_len
    /\ calls' = Append(calls, [op |-> "follow", arg |-> u])
    /\ UNCHANGED <<postVars, codecVars, clientVars>>

UnFollow(u) ==
    /\ MayCallProfile
    /\ follows' = un_follow(Profile, u).follows
    /\ data_len' = un_follow(Profile, u).data_len
    /\ calls' = Append(calls, [op |-> "un_follow", arg |-> u])
    /\ UNCHANGED <<postVars, codecVars, clientVars>>

NextProfile ==
    \/ \E u \in Users : Follow(u)
    \/ \E u \in Users : UnFollow(u)

SpecProfile == InitProfile /\ [][NextProfile]_vars

\* The profile after 65535 follow(1) calls on a new profile: every call
\* appended 1 and set data_len to the length.
FullProfile ==
    [follows |-> [i \in 1..(U16Modulus - 1) |-> 1], data_len |-> U16Modulus - 1]

\* A profile is either new or has been filled by 65535 follow calls; calls
\* then holds the calls made after that.
InitProfileWide ==
    /\ \E p \in {ProfileNew, FullProfile} :
          follows = p.follows /\ data_len = p.data_len
    /\ calls = <<>>
    /\ Idle

SpecProfileWide == InitProfileWide /\ [][NextProfile]_vars

---------------------------------------------------------------------------
(* Byte strings: a String is modelled by its UTF-8 bytes. *)

Empty == <<>>
Hello == <<104, 101, 108, 108, 111>>
World == <<119, 111, 114, 108, 100>>
\* USER_PROFILE_SEED = "profile"
USER_PROFILE_SEED == <<112, 114, 111, 102, 105, 108, 101>>
\* USER_POST_SEED = "post"
USER_POST_SEED == <<112, 111, 115, 116>>

---------------------------------------------------------------------------
(* UserPost *)

\* Post::new(content, timestamp)
PostNew(content, timestamp) == [content |-> content, timestamp |-> timestamp]

\* `n as u64`: usize is at most 64 bits wide, so the length is kept.
AsU64(n) == n

\* UserPost::new()
UserPostNew == [post_count |-> 0, posts |-> <<>>]

\* A post that inserts at the front (Vec::insert(0, post)).
post_front(up, p) ==
    LET ps == <<p>> \o up.posts
    IN  [post_count |-> AsU64(Len(ps)), posts |-> ps]

\* UserPost::post: push, then post_count = len as u64.
post(up, p) ==
    LET ps == Append(up.posts, p)
    IN  [post_count |-> AsU64(Len(ps)), posts |-> ps]

\* UserPost::query_posts: a reference to posts.
query_posts(up) == up.posts

UserPostNow == [post_count |-> post_count, posts |-> posts]

\* The posts the model hands to post(): three contents at two times.
PostInputs ==
    {PostNew(c, t) : c \in {Hello, World, Empty}, t \in {1, 2}}

InitPost ==
    /\ posts = UserPostNew.posts
    /\ post_count = UserPostNew.post_count
    /\ ret = None
    /\ calls = <<>>
    /\ follows = <<>> /\ data_len = 0
    /\ value = None /\ bytes = <<>> /\ decoded = None
    /\ curve = None /\ op = None /\ built = <<>> /\ rpc = <<>> /\ result = None

DoPost(p) ==
    /\ Len(calls) < MaxCalls
    /\ posts' = post(UserPostNow, p).posts
    /\ post_count' = post(UserPostNow, p).post_count
    /\ ret' = None
    /\ calls' = Append(calls, [op |-> "post", arg |-> p])
    /\ UNCHANGED <<profileVars, codecVars, clientVars>>

QueryPosts ==
    /\ Len(calls) < MaxCalls
    /\ ret' = Some(query_posts(UserPostNow))
    /\ calls' = Append(calls, [op |-> "query_posts", arg |-> None])
    /\ UNCHANGED <<posts, post_count>>
    /\ UNCHANGED <<profileVars, codecVars, clientVars>>

NextPost ==
    \/ \E p \in PostInputs : DoPost(p)
    \/ QueryPosts

SpecPost == InitPost /\ [][NextPost]_vars

---------------------------------------------------------------------------
(* Borsh: the wire format behind #[derive(BorshSerialize, BorshDeserialize)] *)

\* The Pubkey (32 bytes) of the user named u.
PubkeyOf(u) == [i \in 1..PubkeyBytes |-> (u + i) % 256]

\* An integer as w little-endian bytes.
RECURSIVE LE(_, _)
LE(n, w) == IF w = 0 THEN <<>> ELSE <<n % 256>> \o LE(n \div 256, w - 1)

\* The integer a little-endian byte string holds.
RECURSIVE FromLE(_)
FromLE(b) == IF b = <<>> THEN 0 ELSE b[1] + 256 * FromLE(Tail(b))

RECURSIVE Concat(_)
Concat(ss) == IF ss = <<>> THEN <<>> ELSE Head(ss) \o Concat(Tail(ss))

EncU16(n) == LE(n, 2)
EncU32(n) == LE(n, 4)
EncU64(n) == LE(n, 8)

\* String: u32 byte length, then the UTF-8 bytes.
EncString(str) == EncU32(Len(str)) \o str

\* Pubkey: its 32 bytes.
EncPubkey(k) == k

\* Post { content: String, timestamp: u64 }
EncPost(p) == EncString(p.content) \o EncU64(p.timestamp)

\* Vec<Pubkey>: u32 length, then the elements in order.
EncPubkeys(ks) == EncU32(Len(ks)) \o Concat([i \in DOMAIN ks |-> EncPubkey(ks[i])])

\* Vec<Post>: u32 length, then the elements in order.
EncPosts(ps) == EncU32(Len(ps)) \o Concat([i \in DOMAIN ps |-> EncPost(ps[i])])

\* An encoder that writes the length of follows where data_len belongs.
EncUserProfileCounted(p) == EncU16(AsU16(Len(p.follows))) \o EncPubkeys(p.follows)

\* UserProfile { data_len: u16, follows: Vec<Pubkey> }: the fields in order.
EncUserProfile(p) == EncU16(p.data_len) \o EncPubkeys(p.follows)

\* UserPost { post_count: u64, posts: Vec<Post> }: the fields in order.
EncUserPost(up) == EncU64(up.post_count) \o EncPosts(up.posts)

\* The enum with FollowUser and UnfollowUser declared the other way round.
VariantTagSwapped(variant) ==
    CASE variant = "InitializeUser" -> 0
      [] variant = "UnfollowUser"   -> 1
      [] variant = "FollowUser"     -> 2
      [] variant = "QueryFollower"  -> 3
      [] variant = "PostContent"    -> 4
      [] variant = "QueryPosts"     -> 5

\* enum SocialInstruction: the tag (u8) is the variant's place in the declaration.
VariantTag(variant) ==
    CASE variant = "InitializeUser" -> 0
      [] variant = "FollowUser"     -> 1
      [] variant = "UnfollowUser"   -> 2
      [] variant = "QueryFollower"  -> 3
      [] variant = "PostContent"    -> 4
      [] variant = "QueryPosts"     -> 5

InitializeUser(seed_type) == [variant |-> "InitializeUser", seed_type |-> seed_type]
FollowUser(k)    == [variant |-> "FollowUser", user_to_follow |-> k]
UnfollowUser(k)  == [variant |-> "UnfollowUser", user_to_unfollow |-> k]
QueryFollower    == [variant |-> "QueryFollower"]
PostContent(c)   == [variant |-> "PostContent", content |-> c]
QueryPostsInstr  == [variant |-> "QueryPosts"]

\* SocialInstruction: the tag, then the variant's fields in order.
EncInstruction(x) ==
    <<VariantTag(x.variant)>> \o
    CASE x.variant = "InitializeUser" -> EncString(x.seed_type)
      [] x.variant = "FollowUser"     -> EncPubkey(x.user_to_follow)
      [] x.variant = "UnfollowUser"   -> EncPubkey(x.user_to_unfollow)
      [] x.variant = "QueryFollower"  -> <<>>
      [] x.variant = "PostContent"    -> EncString(x.content)
      [] x.variant = "QueryPosts"     -> <<>>

(* Reading: each reader takes the bytes left and gives a value with the bytes
   left after it, or an error. *)

\* io::Error "Unexpected length of input"
ErrUnexpectedLength == "Unexpected length of input"
\* io::Error "Unexpected variant tag"
ErrUnexpectedVariant == "Unexpected variant tag"
\* io::Error "Not all bytes read"
ErrNotAllBytesRead == "Not all bytes read"
\* io::Error wrapping the FromUtf8Error of String::from_utf8
ErrInvalidUtf8 == "invalid utf-8 sequence"

ReadOk(v, rest) == [ok |-> TRUE, val |-> v, rest |-> rest]
ReadErr(e) == [ok |-> FALSE, err |-> e]

\* n bytes off the front, or "Unexpected length of input".
ReadBytes(buf, n) ==
    IF Len(buf) < n THEN ReadErr(ErrUnexpectedLength)
    ELSE ReadOk(SubSeq(buf, 1, n), SubSeq(buf, n + 1, Len(buf)))

ReadInt(buf, w) ==
    LET r == ReadBytes(buf, w)
    IN  IF r.ok THEN ReadOk(FromLE(r.val), r.rest) ELSE r

ReadU8(buf)  == ReadInt(buf, 1)
ReadU16(buf) == ReadInt(buf, 2)
ReadU64(buf) == ReadInt(buf, 8)

(* A u32 length prefix is kept as the four little-endian bytes read, which
   hold every value up to 2^32 - 1; integers here end at 2^31 - 1. *)

\* a > b, for two u32 given as their four little-endian bytes.
U32Gt(a, b) ==
    \E i \in 1..4 : /\ a[i] > b[i]
                    /\ \A j \in (i + 1)..4 : a[j] = b[j]

\* The u32 in prefix is more than n, a length of a buffer.
U32Exceeds(prefix, n) == U32Gt(prefix, LE(n, 4))

U32IsZero(a) == \A i \in 1..4 : a[i] = 0

\* a - 1, for a u32 above zero given as its four little-endian bytes.
RECURSIVE U32Dec(_)
U32Dec(a) ==
    IF a[1] > 0 THEN <<a[1] - 1>> \o Tail(a)
    ELSE <<255>> \o U32Dec(Tail(a))

\* core::str::from_utf8: the well-formed UTF-8 byte sequences.
RECURSIVE IsUtf8(_)
IsUtf8(b) ==
    IF b = <<>> THEN TRUE
    ELSE
      LET x == b[1]
          n == Len(b)
          Cont(i) == i <= n /\ b[i] \in 128..191
          Second(lo, hi) == n >= 2 /\ b[2] \in lo..hi
      IN  IF x < 128 THEN IsUtf8(Tail(b))
          ELSE IF x \in 194..223
            THEN Cont(2) /\ IsUtf8(SubSeq(b, 3, n))
          ELSE IF x = 224
            THEN Second(160, 191) /\ Cont(3) /\ IsUtf8(SubSeq(b, 4, n))
          ELSE IF x \in (225..236) \cup (238..239)
            THEN Cont(2) /\ Cont(3) /\ IsUtf8(SubSeq(b, 4, n))
          ELSE IF x = 237
            THEN Second(128, 159) /\ Cont(3) /\ IsUtf8(SubSeq(b, 4, n))
          ELSE IF x = 240
            THEN Second(144, 191) /\ Cont(3) /\ Cont(4) /\ IsUtf8(SubSeq(b, 5, n))
          ELSE IF x \in 241..243
            THEN Cont(2) /\ Cont(3) /\ Cont(4) /\ IsUtf8(SubSeq(b, 5, n))
          ELSE IF x = 244
            THEN Second(128, 143) /\ Cont(3) /\ Cont(4) /\ IsUtf8(SubSeq(b, 5, n))
          ELSE FALSE

\* A String reader that takes the bytes there are when fewer than the length
\* prefix says are left.
ReadStringClamped(buf) ==
    LET l == ReadBytes(buf, 4)
    IN  IF ~l.ok THEN l
        ELSE LET n == IF U32Exceeds(l.val, Len(l.rest)) THEN Len(l.rest)
                      ELSE FromLE(l.val)
                 r == ReadBytes(l.rest, n)
             IN  IF ~IsUtf8(r.val) THEN ReadErr(ErrInvalidUtf8) ELSE r

\* String: the u32 length, that many bytes ("Unexpected length of input" when
\* the length is more than the bytes left), then String::from_utf8.
ReadString(buf) ==
    LET l == ReadBytes(buf, 4)
    IN  IF ~l.ok THEN l
        ELSE IF U32Exceeds(l.val, Len(l.rest)) THEN ReadErr(ErrUnexpectedLength)
        ELSE LET r == ReadBytes(l.rest, FromLE(l.val))
             IN  IF ~r.ok THEN r
                 ELSE IF ~IsUtf8(r.val) THEN ReadErr(ErrInvalidUtf8)
                 ELSE r

ReadPubkey(buf) == ReadBytes(buf, PubkeyBytes)

ReadPost(buf) ==
    LET c == ReadString(buf)
    IN  IF ~c.ok THEN c
        ELSE LET t == ReadU64(c.rest)
             IN  IF ~t.ok THEN t
                 ELSE ReadOk([content |-> c.val, timestamp |-> t.val], t.rest)

\* for _ in 0..n: a Pubkey each round, n the u32 length prefix.
RECURSIVE ReadPubkeys(_, _, _)
ReadPubkeys(buf, n, acc) ==
    IF U32IsZero(n) THEN ReadOk(acc, buf)
    ELSE LET r == ReadPubkey(buf)
         IN  IF ~r.ok THEN r
             ELSE ReadPubkeys(r.rest, U32Dec(n), Append(acc, r.val))

\* for _ in 0..n: a Post each round, n the u32 length prefix.
RECURSIVE ReadPosts(_, _, _)
ReadPosts(buf, n, acc) ==
    IF U32IsZero(n) THEN ReadOk(acc, buf)
    ELSE LET r == ReadPost(buf)
         IN  IF ~r.ok THEN r
             ELSE ReadPosts(r.rest, U32Dec(n), Append(acc, r.val))

ReadUserProfile(buf) ==
    LET d == ReadU16(buf)
    IN  IF ~d.ok THEN d
        ELSE LET l == ReadBytes(d.rest, 4)
             IN  IF ~l.ok THEN l
                 ELSE LET f == ReadPubkeys(l.rest, l.val, <<>>)
                      IN  IF ~f.ok THEN f
                          ELSE ReadOk([data_len |-> d.val, follows |-> f.val], f.rest)

ReadUserPost(buf) ==
    LET c == ReadU64(buf)
    IN  IF ~c.ok THEN c
        ELSE LET l == ReadBytes(c.rest, 4)
             IN  IF ~l.ok THEN l
                 ELSE LET ps == ReadPosts(l.rest, l.val, <<>>)
                      IN  IF ~ps.ok THEN ps
                          ELSE ReadOk([post_count |-> c.val, posts |-> ps.val], ps.rest)

\* The tag, then the fields of the variant it names; any other tag is an error.
ReadInstruction(buf) ==
    LET t == ReadU8(buf)
    IN  IF ~t.ok THEN t
        ELSE IF t.val = 0 THEN
            LET r == ReadString(t.rest)
            IN  IF r.ok THEN ReadOk(InitializeUser(r.val), r.rest) ELSE r
        ELSE IF t.val = 1 THEN
            LET r == ReadPubkey(t.rest)
            IN  IF r.ok THEN ReadOk(FollowUser(r.val), r.rest) ELSE r
        ELSE IF t.val = 2 THEN
            LET r == ReadPubkey(t.rest)
            IN  IF r.ok THEN ReadOk(UnfollowUser(r.val), r.rest) ELSE r
        ELSE IF t.val = 3 THEN ReadOk(QueryFollower, t.rest)
        ELSE IF t.val = 4 THEN
            LET r == ReadString(t.rest)
            IN  IF r.ok THEN ReadOk(PostContent(r.val), r.rest) ELSE r
        ELSE IF t.val = 5 THEN ReadOk(QueryPostsInstr, t.rest)
        ELSE ReadErr(ErrUnexpectedVariant)

DecOk(v) == [ok |-> TRUE, val |-> v]
DecErr(e) == [ok |-> FALSE, err |-> e]

\* BorshDeserialize::try_from_slice: read one value; bytes left over are an error.
TryFromSlice(r) ==
    IF ~r.ok THEN DecErr(r.err)
    ELSE IF r.rest # <<>> THEN DecErr(ErrNotAllBytesRead)
    ELSE DecOk(r.val)

\* borsh::to_vec(v) for the four types.
Encode(v) ==
    CASE v.type = "SocialInstruction" -> EncInstruction(v.val)
      [] v.type = "UserProfile"       -> EncUserProfile(v.val)
      [] v.type = "UserPost"          -> EncUserPost(v.val)
      [] v.type = "Post"              -> EncPost(v.val)

\* T::try_from_slice(buf) for the four types.
Decode(type, buf) ==
    CASE type = "SocialInstruction" -> TryFromSlice(ReadInstruction(buf))
      [] type = "UserProfile"       -> TryFromSlice(ReadUserProfile(buf))
      [] type = "UserPost"          -> TryFromSlice(ReadUserPost(buf))
      [] type = "Post"              -> TryFromSlice(ReadPost(buf))

(* The values and buffers the codec is run on. *)

SeqsUpTo(S, n) == UNION {[1..k -> S] : k \in 0..n}

Pubkeys == {PubkeyOf(u) : u \in Users}

\* Strings: "", "hello", "profile", "post" and a two-byte character.
CodecStrings == {Empty, Hello, USER_PROFILE_SEED, USER_POST_SEED, <<195, 169>>}

Instructions ==
    {InitializeUser(t) : t \in CodecStrings}
    \cup {FollowUser(k) : k \in Pubkeys}
    \cup {UnfollowUser(k) : k \in Pubkeys}
    \cup {QueryFollower, QueryPostsInstr}
    \cup {PostContent(c) : c \in CodecStrings}

\* Posts, with timestamps up to the largest integer TLC holds.
CodecPosts ==
    {PostNew(c, t) : c \in CodecStrings, t \in {0, 1, 256, 2147483647}}

\* Profiles, data_len free of the length of follows.
CodecProfiles ==
    {[data_len |-> d, follows |-> f] :
        d \in {0, 1, 2, U16Modulus - 1}, f \in SeqsUpTo(Pubkeys, MaxVecLen)}

CodecUserPosts ==
    {[post_count |-> c, posts |-> ps] :
        c \in {0, 1, 2},
        ps \in SeqsUpTo({PostNew(Hello, 1), PostNew(Empty, 0),
                         PostNew(<<195, 169>>, 2147483647)}, MaxVecLen)}

Typed(type, S) == {[type |-> type, val |-> v] : v \in S}

CodecValues ==
    Typed("SocialInstruction", Instructions) \cup Typed("UserProfile", CodecProfiles)
    \cup Typed("UserPost", CodecUserPosts) \cup Typed("Post", CodecPosts)

InstructionEncodings == {EncInstruction(x) : x \in Instructions}

\* Buffers that are not the encoding of an instruction: encodings cut short,
\* with a tag past the last variant, with a byte too many, and text payloads
\* with a length prefix that is wrong for the bytes behind it.
RawBuffers ==
    UNION {{SubSeq(e, 1, n) : n \in 0..(Len(e) - 1)} : e \in InstructionEncodings}
    \cup {<<t>> \o Tail(e) : e \in InstructionEncodings, t \in {6, 7, 128, 255}}
    \cup {e \o <<0>> : e \in InstructionEncodings}
    \cup {<<t>> \o l \o c :
            t \in {0, 4},
            l \in {<<0, 0, 0, 0>>, <<1, 0, 0, 0>>, <<2, 0, 0, 0>>, <<0, 1, 0, 0>>,
                   <<0, 0, 0, 128>>, <<255, 255, 255, 255>>},
            c \in {<<>>, <<104>>, <<255>>, <<195>>, <<195, 169>>, <<104, 105, 33>>}}

InitCodec ==
    /\ value = None /\ bytes = <<>> /\ decoded = None
    /\ follows = <<>> /\ data_len = 0
    /\ posts = <<>> /\ post_count = 0 /\ ret = None /\ calls = <<>>
    /\ curve = None /\ op = None /\ built = <<>> /\ rpc = <<>> /\ result = None

\* borsh::to_vec(&v)
DoEncode(v) ==
    /\ value' = v
    /\ bytes' = Encode(v)
    /\ decoded' = None
    /\ UNCHANGED <<profileVars, postVars, calls, clientVars>>

\* T::try_from_slice(&bytes) on the bytes just encoded, T the type encoded.
DoDecode ==
    /\ value # None
    /\ decoded = None
    /\ decoded' = Decode(value.type, bytes)
    /\ UNCHANGED <<value, bytes>>
    /\ UNCHANGED <<profileVars, postVars, calls, clientVars>>

\* SocialInstruction::try_from_slice(b) on a buffer from elsewhere.
DoDecodeRaw(b) ==
    /\ value' = None
    /\ bytes' = b
    /\ decoded' = Decode("SocialInstruction", b)
    /\ UNCHANGED <<profileVars, postVars, calls, clientVars>>

NextCodec ==
    \/ \E v \in CodecValues : DoEncode(v)
    \/ DoDecode
    \/ \E b \in RawBuffers : DoDecodeRaw(b)

SpecCodec == InitCodec /\ [][NextCodec]_vars

---------------------------------------------------------------------------
(* Program-derived addresses: Pubkey::find_program_address behind get_pda *)

\* Bound: the number of keypairs the client operations are called with.
NumKeypairs == 2

\* Most seeds create_program_address takes (MAX_SEEDS), the bump seed included.
MAX_SEEDS == 16
\* Longest seed create_program_address takes (MAX_SEED_LEN).
MAX_SEED_LEN == 32
\* u8::MAX: the first bump seed tried, and the number of rounds of the search.
U8_MAX == 255

\* "ProgramDerivedAddress"
PDA_MARKER ==
    <<80, 114, 111, 103, 114, 97, 109, 68, 101, 114, 105, 118, 101, 100,
      65, 100, 100, 114, 101, 115, 115>>

\* SHA-256, kept symbolic: the hash of a byte string is that string under a
\* constructor, so two hashes are equal exactly when their inputs are.
Sha256(preimage) == [sha256 |-> preimage]

\* The program id the client was built with.
PROGRAM_ID == PubkeyOf(53)

\* solana_sdk::system_program::id(): 32 zero bytes.
SYSTEM_PROGRAM_ID == [i \in 1..PubkeyBytes |-> 0]

\* A seed longer than MAX_SEED_LEN.
LongSeed == [i \in 1..(MAX_SEED_LEN + 1) |-> 115]

\* bytes_are_curve_point(hash), read off the table `curve`: curve maps the
\* seed bytes before the bump to the bump seeds whose hash is off the curve.
\* Seeds the table does not hold have every hash off the curve.
IsOnCurve(hash) ==
    LET pre  == hash.sha256
        n    == Len(pre) - PubkeyBytes - Len(PDA_MARKER)
        key  == SubSeq(pre, 1, n - 1)
        bump == pre[n]
    IN  key \in DOMAIN curve /\ bump \notin curve[key]

PdaOk(address) == [ok |-> TRUE, val |-> address]
PdaErr(e) == [ok |-> FALSE, err |-> e]

\* Pubkey::create_program_address
create_program_address(seeds, program_id) ==
    IF Len(seeds) > MAX_SEEDS THEN PdaErr("MaxSeedLengthExceeded")
    ELSE IF \E i \in DOMAIN seeds : Len(seeds[i]) > MAX_SEED_LEN
        THEN PdaErr("MaxSeedLengthExceeded")
    ELSE LET hash == Sha256(Concat(seeds) \o program_id \o PDA_MARKER)
         IN  IF IsOnCurve(hash) THEN PdaErr("InvalidSeeds") ELSE PdaOk(hash)

\* Round i of the loop `for _ in 0..u8::MAX` of try_find_program_address:
\* the bump seed starts at u8::MAX and goes down by one each round.
BumpOfRound(i) == U8_MAX - (i - 1)

RoundResult(seeds, program_id, i) ==
    create_program_address(Append(seeds, <<BumpOfRound(i)>>), program_id)

\* The loop goes on only after Err(InvalidSeeds).
RoundEndsLoop(seeds, program_id, i) ==
    LET r == RoundResult(seeds, program_id, i)
    IN  r.ok \/ r.err # "InvalidSeeds"

\* Pubkey::try_find_program_address: the first round that ends the loop
\* returns Some((address, bump)) on Ok and breaks to None on another error;
\* None as well when all u8::MAX rounds gave InvalidSeeds.
try_find_program_address(seeds, program_id) ==
    IF \E i \in 1..U8_MAX : RoundEndsLoop(seeds, program_id, i)
    THEN LET first == CHOOSE i \in 1..U8_MAX :
                          /\ RoundEndsLoop(seeds, program_id, i)
                          /\ \A j \in 1..(i - 1) : ~RoundEndsLoop(seeds, program_id, j)
             r == RoundResult(seeds, program_id, first)
         IN  IF r.ok THEN Some(<<r.val, BumpOfRound(first)>>) ELSE None
    ELSE None

\* The panic of Pubkey::find_program_address.
Panic == [panic |-> "Unable to find a viable program address bump seed"]

\* Pubkey::find_program_address: the address and bump found, or a panic.
find_program_address(seeds, program_id) ==
    LET r == try_find_program_address(seeds, program_id)
    IN  IF r = None THEN Panic ELSE r.some

\* get_pda: the address of find_program_address (the println aside).
get_pda(program_id, seed) ==
    LET r == find_program_address(seed, program_id)
    IN  IF r = Panic THEN Panic ELSE r[1]

---------------------------------------------------------------------------
(* SocialClient *)

\* AccountMeta::new(pubkey, is_signer): writable.
AccountMetaNew(pubkey, is_signer) ==
    [pubkey |-> pubkey, is_signer |-> is_signer, is_writable |-> TRUE]

\* AccountMeta::new_readonly(pubkey, is_signer)
AccountMetaNewReadonly(pubkey, is_signer) ==
    [pubkey |-> pubkey, is_signer |-> is_signer, is_writable |-> FALSE]

\* Instruction::new_with_borsh(program_id, &data, accounts)
new_with_borsh(program_id, data, accounts) ==
    [program_id |-> program_id, accounts |-> accounts, data |-> EncInstruction(data)]

ResOk == [ok |-> TRUE]
ResErr(e) == [ok |-> FALSE, err |-> e]

\* The panic of Transaction::sign.
SignPanic == [panic |-> "Transaction::sign failed with error NotEnoughSigners"]

\* A call ended in a panic: it returned nothing.
Panicked(r) == "panic" \in DOMAIN r

\* Message::new_with_blockhash: the accounts that must sign are the payer and
\* every account an instruction marks as signer.
RequiredSigners(instructions, payer_pubkey) ==
    {payer_pubkey} \cup
    UNION {{instructions[i].accounts[j].pubkey :
               j \in {k \in DOMAIN instructions[i].accounts :
                         instructions[i].accounts[k].is_signer}} :
           i \in DOMAIN instructions}

\* Transaction::new_signed_with_payer(&instructions, Some(&payer.pubkey()),
\* &[payer], last_blockhash): signed by the payer alone; it panics when
\* another account must sign too.
new_signed_with_payer(instructions, payer, last_blockhash) ==
    IF RequiredSigners(instructions, payer.pubkey) \subseteq {payer.pubkey}
    THEN [instructions |-> instructions, payer |-> payer.pubkey,
          signers |-> <<payer.pubkey>>, recent_blockhash |-> last_blockhash]
    ELSE SignPanic

RpcGetLatestBlockhash == [call |-> "get_latest_blockhash"]
RpcSendAndConfirm(tx) == [call |-> "send_and_confirm_transaction", transaction |-> tx]

\* A send_instruction that goes on with a default blockhash when the fetch
\* fails and reports the submission's outcome.
send_instruction_unwrap_or_default(payer, instructions, env) ==
    LET hash == IF env.bh.ok THEN env.bh.val ELSE "11111111"
        transaction == new_signed_with_payer(instructions, payer, hash)
    IN  IF transaction = SignPanic
        THEN [result |-> SignPanic, rpc |-> <<RpcGetLatestBlockhash>>]
        ELSE [result |-> IF env.sc.ok THEN ResOk ELSE ResErr(env.sc.err),
              rpc |-> <<RpcGetLatestBlockhash, RpcSendAndConfirm(transaction)>>]

\* SocialClient::send_instruction. env holds what the RPC node answers:
\* env.bh to get_latest_blockhash, env.sc to send_and_confirm_transaction.
send_instruction(payer, instructions, env) ==
    IF ~env.bh.ok
    THEN [result |-> ResErr(env.bh.err), rpc |-> <<RpcGetLatestBlockhash>>]
    ELSE LET transaction == new_signed_with_payer(instructions, payer, env.bh.val)
         IN  IF transaction = SignPanic
             THEN [result |-> SignPanic, rpc |-> <<RpcGetLatestBlockhash>>]
             ELSE [result |-> IF env.sc.ok THEN ResOk ELSE ResErr(env.sc.err),
                   rpc |-> <<RpcGetLatestBlockhash, RpcSendAndConfirm(transaction)>>]

\* What a client operation leaves when get_pda panics: nothing built, no RPC.
Aborted == [result |-> Panic, built |-> <<>>, rpc |-> <<>>]

\* The tail of every operation: send the one instruction, `?`, Ok(()).
SendOne(user_keypair, instruction, env) ==
    LET s == send_instruction(user_keypair, <<instruction>>, env)
    IN  [result |-> s.result, built |-> <<instruction>>, rpc |-> s.rpc]

\* SocialClient::initialize_user
initialize_user(user_keypair, seed_type, env) ==
    LET pda == get_pda(PROGRAM_ID, <<user_keypair.pubkey, seed_type>>)
    IN  IF pda = Panic THEN Aborted
        ELSE SendOne(user_keypair,
                 new_with_borsh(PROGRAM_ID, InitializeUser(seed_type),
                     <<AccountMetaNew(user_keypair.pubkey, TRUE),
                       AccountMetaNew(pda, FALSE),
                       AccountMetaNewReadonly(SYSTEM_PROGRAM_ID, FALSE)>>),
                 env)

\* A follow_user that derives the post account.
follow_user_post_seed(user_keypair, user, env) ==
    LET pda == get_pda(PROGRAM_ID, <<user_keypair.pubkey, USER_POST_SEED>>)
    IN  IF pda = Panic THEN Aborted
        ELSE SendOne(user_keypair,
                 new_with_borsh(PROGRAM_ID, FollowUser(user),
                     <<AccountMetaNew(pda, FALSE)>>),
                 env)

\* SocialClient::follow_user
follow_user(user_keypair, user, env) ==
    LET pda == get_pda(PROGRAM_ID, <<user_keypair.pubkey, USER_PROFILE_SEED>>)
    IN  IF pda = Panic THEN Aborted
        ELSE SendOne(user_keypair,
                 new_with_borsh(PROGRAM_ID, FollowUser(user),
                     <<AccountMetaNew(pda, FALSE)>>),
                 env)

\* SocialClient::qurey_followers
qurey_followers(user_keypair, env) ==
    LET pda == get_pda(PROGRAM_ID, <<user_keypair.pubkey, USER_PROFILE_SEED>>)
    IN  IF pda = Panic THEN Aborted
        ELSE SendOne(user_keypair,
                 new_with_borsh(PROGRAM_ID, QueryFollower,
                     <<AccountMetaNew(pda, FALSE)>>),
                 env)

\* SocialClient::delete_followers
delete_followers(user_keypair, user_to_unfollow, env) ==
    LET pda == get_pda(PROGRAM_ID, <<user_keypair.pubkey, USER_PROFILE_SEED>>)
    IN  IF pda = Panic THEN Aborted
        ELSE SendOne(user_keypair,
                 new_with_borsh(PROGRAM_ID, UnfollowUser(user_to_unfollow),
                     <<AccountMetaNew(pda, FALSE)>>),
                 env)

\* SocialClient::qurey_posts
qurey_posts(user_keypair, env) ==
    LET pda == get_pda(PROGRAM_ID, <<user_keypair.pubkey, USER_POST_SEED>>)
    IN  IF pda = Panic THEN Aborted
        ELSE SendOne(user_keypair,
                 new_with_borsh(PROGRAM_ID, QueryPostsInstr,
                     <<AccountMetaNew(pda, FALSE)>>),
                 env)

\* SocialClient::send_posts
send_posts(user_keypair, content, env) ==
    LET pda == get_pda(PROGRAM_ID, <<user_keypair.pubkey, USER_POST_SEED>>)
    IN  IF pda = Panic THEN Aborted
        ELSE SendOne(user_keypair,
                 new_with_borsh(PROGRAM_ID, PostContent(content),
                     <<AccountMetaNew(pda, FALSE)>>),
                 env)

(* The inputs of the client operations. *)

\* A keypair, known by its public key.
Keypairs == {[pubkey |-> PubkeyOf(u)] : u \in 1..NumKeypairs}

\* The users follow_user and delete_followers are called with.
Targets == {PubkeyOf(1), PubkeyOf(2)}

\* The seed types initialize_user is called with.
SeedTypes == {USER_PROFILE_SEED, USER_POST_SEED, LongSeed}

\* The seed bytes before the bump, for the seeds the curve table holds.
SeedKeys ==
    {kp.pubkey \o t : kp \in Keypairs, t \in {USER_PROFILE_SEED, USER_POST_SEED}}

\* Which bump seeds hash off the curve: all, none, only 0, or two of them.
OffCurveSets == {0..U8_MAX, {}, {0}, {3, 254}}

\* The curve tables: one seed with any of the sets, the others with every
\* bump seed below u8::MAX off the curve.
Curves ==
    {[k \in SeedKeys |-> IF k = k0 THEN off ELSE 0..(U8_MAX - 1)] :
        k0 \in SeedKeys, off \in OffCurveSets}

\* The instruction lists send_instruction is called with on its own: none,
\* one, and two in either order. The second instruction has the first
\* keypair's account sign: the payer itself, or an account the payer cannot
\* sign for.
DirectInstructions ==
    LET a == new_with_borsh(PROGRAM_ID, QueryFollower,
                 <<AccountMetaNew(PubkeyOf(3), FALSE)>>)
        b == new_with_borsh(SYSTEM_PROGRAM_ID, PostContent(Hello),
                 <<AccountMetaNewReadonly(PubkeyOf(1), TRUE)>>)
    IN  {<<>>, <<a>>, <<a, b>>, <<b, a>>}

\* What the RPC node answers.
Envs ==
    {[bh |-> b, sc |-> c] :
        b \in {[ok |-> TRUE, val |-> "blockhash"],
               [ok |-> FALSE, err |-> "get_latest_blockhash failed"]},
        c \in {[ok |-> TRUE, val |-> "signature"],
               [ok |-> FALSE, err |-> "send_and_confirm_transaction failed"]}}

InitClient ==
    /\ curve \in Curves
    /\ op = None /\ built = <<>> /\ rpc = <<>> /\ result = None
    /\ follows = <<>> /\ data_len = 0
    /\ posts = <<>> /\ post_count = 0 /\ ret = None /\ calls = <<>>
    /\ value = None /\ bytes = <<>> /\ decoded = None

\* The call made: the operation, its arguments and the RPC node's answers.
Call(name, kp, arg, env) ==
    [name |-> name, user_keypair |-> kp, arg |-> arg, env |-> env]

\* What a call left: the instructions built, the RPC calls made, the result.
Left(r) ==
    /\ built' = r.built
    /\ rpc' = r.rpc
    /\ result' = r.result
    /\ UNCHANGED <<curve, profileVars, postVars, calls, codecVars>>

InitializeUserOp(kp, seed_type, env) ==
    /\ op' = Call("initialize_user", kp, seed_type, env)
    /\ Left(initialize_user(kp, seed_type, env))

FollowUserOp(kp, user, env) ==
    /\ op' = Call("follow_user", kp, user, env)
    /\ Left(follow_user(kp, user, env))

QureyFollowersOp(kp, env) ==
    /\ op' = Call("qurey_followers", kp, None, env)
    /\ Left(qurey_followers(kp, env))

DeleteFollowersOp(kp, user, env) ==
    /\ op' = Call("delete_followers", kp, user, env)
    /\ Left(delete_followers(kp, user, env))

QureyPostsOp(kp, env) ==
    /\ op' = Call("qurey_posts", kp, None, env)
    /\ Left(qurey_posts(kp, env))

SendPostsOp(kp, content, env) ==
    /\ op' = Call("send_posts", kp, content, env)
    /\ Left(send_posts(kp, content, env))

\* A call of send_instruction itself: the caller's instructions go out as
\* they are (or signing panics), no account is derived and no instruction
\* is built.
SendInstructionOp(payer, instructions, env) ==
    /\ op' = Call("send_instruction", payer, instructions, env)
    /\ Left([built |-> <<>>] @@ send_instruction(payer, instructions, env))

NextClient ==
    \E kp \in Keypairs, env \in Envs :
        \/ \E t \in SeedTypes : InitializeUserOp(kp, t, env)
        \/ \E u \in Targets : FollowUserOp(kp, u, env)
        \/ QureyFollowersOp(kp, env)
        \/ \E u \in Targets : DeleteFollowersOp(kp, u, env)
        \/ QureyPostsOp(kp, env)
        \/ \E c \in {Hello, Empty} : SendPostsOp(kp, c, env)
        \/ \E is \in DirectInstructions : SendInstructionOp(kp, is, env)

SpecClient == InitClient /\ [][NextClient]_vars

---------------------------------------------------------------------------
(* Claims about UserProfile *)

CallFollow(u) == [op |-> "follow", arg |-> u]
CallUnFollow(u) == [op |-> "un_follow", arg |-> u]

\* C1: in every state reached from new() by follow and un_follow calls,
\* data_len equals the number of entries of follows.
C1_DataLenIsLen == data_len = Len(follows)

\* The sequence s without its entries equal to u, the others in their order.
RECURSIVE WithoutAll(_, _)
WithoutAll(s, u) ==
    IF s = <<>> THEN <<>>
    ELSE IF Head(s) = u THEN WithoutAll(Tail(s), u)
         ELSE <<Head(s)>> \o WithoutAll(Tail(s), u)

\* One call on the profile did what C2 says of it.
C2_StepOk ==
    calls' # calls =>
        LET c == Last(calls')
        IN  /\ c.op = "follow" =>
                  /\ Len(follows') = Len(follows) + 1
                  /\ SubSeq(follows', 1, Len(follows)) = follows
                  /\ follows'[Len(follows')] = c.arg
            /\ c.op = "un_follow" => follows' = WithoutAll(follows, c.arg)
            /\ calls' = <<CallFollow(1), CallFollow(2)>> => follows' = <<1, 2>>
            /\ calls' = <<CallFollow(1), CallFollow(2), CallUnFollow(1)>>
                  => follows' = <<2>>

\* C2: follow(u) appends u at the end of follows, also when u is already
\* there; un_follow(u) removes every entry equal to u and keeps the others in
\* their order; from empty, follow(A), follow(B) gives [A, B] and then
\* un_follow(A) gives [B].
C2_FollowAppendsUnfollowRemovesAll == [][C2_StepOk]_vars

\* follow A, follow B, follow A, un_follow A has run: a duplicate was appended
\* and both copies were removed around B.
C2_Witness ==
    /\ calls = <<CallFollow(1), CallFollow(2), CallFollow(1), CallUnFollow(1)>>
    /\ follows = <<2>>

\* An un_follow of an address that was not in follows changed nothing.
C3_StepOk ==
    (/\ calls' # calls
     /\ Last(calls').op = "un_follow"
     /\ Last(calls').arg \notin Range(follows))
        => (follows' = follows /\ data_len' = data_len)

\* C3: un_follow(u) of an address that does not occur in follows leaves
\* follows and data_len as they were.
C3_UnfollowAbsentIsNoOp == [][C3_StepOk]_vars

\* un_follow(2) has run on a profile that follows only 1.
C3_Witness ==
    /\ calls = <<CallFollow(1), CallUnFollow(2)>>
    /\ follows = <<1>>
    /\ data_len = 1

---------------------------------------------------------------------------
(* Claims about UserPost *)

CallPost(c, t) == [op |-> "post", arg |-> PostNew(c, t)]
CallQuery == [op |-> "query_posts", arg |-> None]

\* One call on the post record did what C4 says of it.
C4_StepOk ==
    calls' # calls =>
        LET c == Last(calls')
        IN  /\ post_count' = Len(posts')
            /\ c.op = "post" =>
                  /\ Len(posts') = Len(posts) + 1
                  /\ SubSeq(posts', 1, Len(posts)) = posts
                  /\ posts'[Len(posts')] = c.arg
            /\ c.op = "query_posts" =>
                  /\ posts' = posts
                  /\ post_count' = post_count
                  /\ ret' = Some(posts)
            /\ calls' = <<CallPost(Hello, 1), CallPost(World, 2)>> =>
                  /\ posts' = <<PostNew(Hello, 1), PostNew(World, 2)>>
                  /\ post_count' = 2

\* C4: UserPost is append-only: post_count is the length of posts, post(p)
\* keeps the earlier posts as a prefix and adds p last, query_posts changes
\* nothing; "hello" at t1 then "world" at t2 gives those two posts in that
\* order with post_count 2.
C4_PostAppendOnly ==
    /\ post_count = Len(posts)
    /\ [][C4_StepOk]_vars

\* "hello" at 1, a query, then "world" at 2 have run.
C4_Witness ==
    /\ calls = <<CallPost(Hello, 1), CallQuery, CallPost(World, 2)>>
    /\ posts = <<PostNew(Hello, 1), PostNew(World, 2)>>
    /\ post_count = 2

---------------------------------------------------------------------------
(* Claims about the codec *)

\* The discriminant table of the wire format.
TagTable ==
    {<<0, "InitializeUser">>, <<1, "FollowUser">>, <<2, "UnfollowUser">>,
     <<3, "QueryFollower">>, <<4, "PostContent">>, <<5, "QueryPosts">>}

EncodedInstruction == value # None /\ value.type = "SocialInstruction"

\* C5: the encoding of a SocialInstruction starts with the tag the table
\* gives its variant (0 InitializeUser, 1 FollowUser, 2 UnfollowUser,
\* 3 QueryFollower, 4 PostContent, 5 QueryPosts), whatever the payload, each
\* tag standing for one variant and each variant for one tag; QueryFollower
\* and QueryPosts encode to the tag alone.
C5_TagOfVariant ==
    EncodedInstruction =>
        /\ Len(bytes) >= 1
        /\ \A e \in TagTable : (bytes[1] = e[1]) <=> (value.val.variant = e[2])
        /\ \E e \in TagTable : bytes[1] = e[1]
        /\ value.val.variant \in {"QueryFollower", "QueryPosts"} => Len(bytes) = 1

\* UnfollowUser of a key has been encoded: tag 2, then the 32 bytes.
C5_Witness ==
    /\ EncodedInstruction
    /\ value.val.variant = "UnfollowUser"
    /\ bytes[1] = 2
    /\ Len(bytes) = 1 + PubkeyBytes

\* C6: decoding the encoding of a value gives the value back, for every
\* SocialInstruction, UserProfile, UserPost and Post, also a profile whose
\* data_len is not the length of follows and a post with empty content.
C6_RoundTrip ==
    (value # None /\ decoded # None) => decoded = DecOk(value.val)

\* A profile with data_len 65535 and one followed key has gone through
\* encode and decode.
C6_Witness ==
    /\ value # None /\ decoded # None
    /\ value.type = "UserProfile"
    /\ value.val.data_len = U16Modulus - 1
    /\ Len(value.val.follows) = 1
    /\ decoded.ok

\* The buffer starts a text payload (tag 0 or 4) whose length prefix says more
\* bytes than follow it.
TextCutShort(b) ==
    /\ Len(b) >= 5
    /\ b[1] \in {0, 4}
    /\ \/ b[4] > 0
       \/ b[5] > 0
       \/ b[2] + 256 * b[3] > Len(b) - 5

\* The instructions there are: a variant with exactly its own fields.
IsInstruction(x) ==
    /\ x.variant \in {e[2] : e \in TagTable}
    /\ CASE x.variant = "InitializeUser" ->
                DOMAIN x = {"variant", "seed_type"} /\ IsUtf8(x.seed_type)
         [] x.variant = "FollowUser" ->
                DOMAIN x = {"variant", "user_to_follow"}
                /\ Len(x.user_to_follow) = PubkeyBytes
         [] x.variant = "UnfollowUser" ->
                DOMAIN x = {"variant", "user_to_unfollow"}
                /\ Len(x.user_to_unfollow) = PubkeyBytes
         [] x.variant = "PostContent" ->
                DOMAIN x = {"variant", "content"} /\ IsUtf8(x.content)
         [] OTHER -> DOMAIN x = {"variant"}

DecodedRaw == value = None /\ decoded # None

\* C7: decoding malformed instruction bytes gives an error and never part of
\* an instruction: a leading tag of 6 or more fails as an unknown variant, a
\* PostContent or InitializeUser buffer shorter than its declared text length
\* fails as truncated input, and a decode that succeeds gives a whole
\* instruction, the one the buffer is the encoding of.
C7_MalformedIsError ==
    DecodedRaw =>
        /\ (Len(bytes) >= 1 /\ bytes[1] >= 6) => decoded = DecErr(ErrUnexpectedVariant)
        /\ TextCutShort(bytes) => decoded = DecErr(ErrUnexpectedLength)
        /\ decoded.ok => (IsInstruction(decoded.val) /\ EncInstruction(decoded.val) = bytes)
        /\ ~decoded.ok => DOMAIN decoded = {"ok", "err"}

\* A PostContent buffer that declares two bytes of text and holds one has
\* been decoded.
C7_Witness ==
    /\ DecodedRaw
    /\ bytes = <<4, 2, 0, 0, 0, 104>>
    /\ ~decoded.ok

---------------------------------------------------------------------------
(* Claims about the client *)

\* The candidate address of the seeds with a bump seed.
Candidate(program_id, seeds, bump) ==
    Sha256(Concat(seeds) \o <<bump>> \o program_id \o PDA_MARKER)

\* The bump seeds whose candidate is no curve point.
OffCurveBumps(program_id, seeds) ==
    {b \in 0..U8_MAX : ~IsOnCurve(Candidate(program_id, seeds, b))}

\* derive(program_id, seeds) of the addressing convention: the candidate of
\* the highest bump seed that is off the curve.
IsDerived(address, program_id, seeds) ==
    \E b \in OffCurveBumps(program_id, seeds) :
        /\ address = Candidate(program_id, seeds, b)
        /\ \A c \in OffCurveBumps(program_id, seeds) : c <= b

\* The seed the operation derives its account with.
SeedOf(o) ==
    CASE o.name = "initialize_user" -> o.arg
      [] o.name \in {"follow_user", "delete_followers", "qurey_followers"}
            -> USER_PROFILE_SEED
      [] o.name \in {"send_posts", "qurey_posts"} -> USER_POST_SEED

\* The operations that derive an account and build an instruction.
BuildingOps ==
    {"initialize_user", "follow_user", "delete_followers", "qurey_followers",
     "send_posts", "qurey_posts"}

\* An operation was called and returned: it did not panic in get_pda or in
\* signing.
Returned == op # None /\ ~Panicked(result)

\* One of the six building operations went past get_pda.
Built == Returned /\ op.name \in BuildingOps

\* C8: every client operation builds exactly one instruction; follow_user,
\* delete_followers and qurey_followers reference only the writable
\* non-signer account derive(program_id, [user pubkey, "profile"]), send_posts
\* and qurey_posts only the writable non-signer account
\* derive(program_id, [user pubkey, "post"]); initialize_user references the
\* payer (writable, signer), the account derive(program_id, [user pubkey,
\* seed_type]) (writable) and the system program (read-only), in that order,
\* with the same seed_type in the payload.
C8_AccountsFollowConvention ==
    Built =>
        /\ Len(built) = 1
        /\ built[1].program_id = PROGRAM_ID
        /\ LET accounts == built[1].accounts
               user == op.user_keypair.pubkey
           IN  IF op.name = "initialize_user"
               THEN /\ Len(accounts) = 3
                    /\ accounts[1] =
                         [pubkey |-> user, is_signer |-> TRUE, is_writable |-> TRUE]
                    /\ IsDerived(accounts[2].pubkey, PROGRAM_ID, <<user, op.arg>>)
                    /\ accounts[2].is_writable /\ ~accounts[2].is_signer
                    /\ accounts[3] =
                         [pubkey |-> SYSTEM_PROGRAM_ID, is_signer |-> FALSE,
                          is_writable |-> FALSE]
                    /\ Decode("SocialInstruction", built[1].data)
                         = DecOk(InitializeUser(op.arg))
               ELSE /\ Len(accounts) = 1
                    /\ IsDerived(accounts[1].pubkey, PROGRAM_ID, <<user, SeedOf(op)>>)
                    /\ accounts[1].is_writable /\ ~accounts[1].is_signer

\* follow_user has built its instruction for a user whose profile address
\* is found at the second bump seed tried.
C8_Witness ==
    /\ Built
    /\ op.name = "follow_user"
    /\ Len(built) = 1
    /\ built[1].accounts[1].pubkey =
         Candidate(PROGRAM_ID, <<op.user_keypair.pubkey, USER_PROFILE_SEED>>, U8_MAX - 1)

\* The seeds of the operation called.
SeedsOf(o) == <<o.user_keypair.pubkey, SeedOf(o)>>

\* No candidate of the 256 bump seeds qualifies: each is a curve point or
\* cannot be computed from the seeds.
NoCandidate(o) ==
    \A b \in 0..U8_MAX :
        ~create_program_address(Append(SeedsOf(o), <<b>>), PROGRAM_ID).ok

\* The account an operation derived, when it built its instruction.
DerivedAccount == built[1].accounts[IF op.name = "initialize_user" THEN 2 ELSE 1]

\* C9: derivation tries the 256 bump seeds from high to low and returns the
\* first candidate that is no curve point, so a returned address is off the
\* curve; when none of the 256 candidates qualifies it fails with the error
\* DerivationExhausted, returned to the caller, and does not panic.
C9_DerivationNeverPanics ==
    (op # None /\ op.name \in BuildingOps) =>
        /\ NoCandidate(op) => result = ResErr("DerivationExhausted")
        /\ built # <<>> =>
              /\ ~IsOnCurve(DerivedAccount.pubkey)
              /\ IsDerived(DerivedAccount.pubkey, PROGRAM_ID, SeedsOf(op))

\* The RPC calls an operation made, by name.
RpcNames == [i \in DOMAIN rpc |-> rpc[i].call]

\* The instructions the call handed to the transport: the ones it built, or
\* the caller's own when send_instruction was called itself.
Handed == IF op.name = "send_instruction" THEN op.arg ELSE built

\* C10: a client operation returns the transport's outcome unchanged: Ok only
\* when the transaction was submitted and confirmed; a failure of the
\* blockhash fetch or of the submission is returned as it is, nothing is
\* retried, and no transaction is submitted after a blockhash failure. A call
\* that panics (in get_pda or in signing) returns nothing and submits nothing.
C10_TransportOutcomeUnchanged ==
    op # None =>
        /\ result = ResOk =>
              /\ op.env.bh.ok /\ op.env.sc.ok
              /\ RpcNames = <<"get_latest_blockhash", "send_and_confirm_transaction">>
        /\ Panicked(result) => \A i \in DOMAIN rpc : rpc[i] = RpcGetLatestBlockhash
        /\ Returned =>
              /\ (op.env.bh.ok /\ op.env.sc.ok) => result = ResOk
              /\ ~op.env.bh.ok =>
                    /\ result = ResErr(op.env.bh.err)
                    /\ RpcNames = <<"get_latest_blockhash">>
              /\ (op.env.bh.ok /\ ~op.env.sc.ok) =>
                    /\ result = ResErr(op.env.sc.err)
                    /\ RpcNames =
                         <<"get_latest_blockhash", "send_and_confirm_transaction">>
              /\ Len(rpc) = 2 =>
                    /\ rpc[2].transaction.instructions = Handed
                    /\ rpc[2].transaction.recent_blockhash = op.env.bh.val
                    /\ rpc[2].transaction.payer = op.user_keypair.pubkey

\* send_posts was called while the node failed the blockhash fetch: the
\* failure came back and nothing was submitted.
C10_Witness ==
    /\ Built
    /\ op.name = "send_posts"
    /\ ~op.env.bh.ok
    /\ result = ResErr("get_latest_blockhash failed")
    /\ Len(rpc) = 1

=============================================================================
